---------------------------- MODULE Spec2Model ----------------------------
(***************************************************************************)
(* A model of study_companion_app.jsx: the StudyCompanionApp component     *)
(* (its state, event handlers and effects) and the helper functions        *)
(* shorten, extractSentences, pickSentences, makeDistractors and           *)
(* sampleProgress.                                                         *)
(*                                                                         *)
(* A JavaScript string is a sequence of one-character strings, so that     *)
(* length, slicing, splitting, trimming and case folding are computed.     *)
(* A value of Math.random() is a numerator k over a denominator den, with  *)
(* 0 <= k < den, so that Math.floor(Math.random() * n) = (k * n) \div den. *)
(***************************************************************************)
EXTENDS Integers, Sequences, FiniteSets, TLC

VARIABLES
    route,          \* useState "route"
    profile,        \* useState "profile"
    documents,      \* useState "documents", newest first
    assessments,    \* useState "assessments", newest first
    progressData,   \* useState "progressData"
    storage,        \* localStorage: key -> [present, value]
    pending,        \* the effects React runs after the commit in progress
    reading,        \* FileReader reads in flight (handleFileUpload)
    now,            \* the wall clock, Date.now()
    picksLog,       \* history: the picks (line 118) of each stored assessment
    lastEvent,      \* history: the handler that ran last
    call,           \* a call of a helper function: its name and arguments
    ret             \* what that call returned

vars == <<route, profile, documents, assessments, progressData, storage,
          pending, reading, now, picksLog, lastEvent, call, ret>>

appVars == <<route, profile, documents, assessments, progressData, storage,
             pending, reading, now, picksLog, lastEvent>>

-----------------------------------------------------------------------------
(* Sequences and characters *)

Range(s) == {s[i] : i \in DOMAIN s}

Min(a, b) == IF a <= b THEN a ELSE b

Rep(c, n) == [i \in 1..n |-> c]

RECURSIVE Flatten(_)
Flatten(ss) == IF ss = <<>> THEN <<>> ELSE Head(ss) \o Flatten(Tail(ss))

UpperChars == <<"A", "B", "C", "D", "E", "F", "G", "H", "I", "J", "K", "L", "M", "N", "O", "P",
    "Q", "R", "S", "T", "U", "V", "W", "X", "Y", "Z">>

LowerChars == <<"a", "b", "c", "d", "e", "f", "g", "h", "i", "j", "k", "l", "m", "n", "o", "p",
    "q", "r", "s", "t", "u", "v", "w", "x", "y", "z">>

DigitChars == <<"0", "1", "2", "3", "4", "5", "6", "7", "8", "9">>

\* /\s/ and what String.prototype.trim strips (the ASCII part)
IsSpace(c) == c \in {" ", "\n", "\t", "\r"}

\* /[.?!]/
IsEndMark(c) == c \in {".", "?", "!"}

\* /[A-Z0-9]/
IsUpperOrDigit(c) == c \in Range(UpperChars) \cup Range(DigitChars)

LowerChar(c) ==
    IF c \in Range(UpperChars)
    THEN LowerChars[CHOOSE i \in DOMAIN UpperChars : UpperChars[i] = c]
    ELSE c

\* String.prototype.toLowerCase
toLowerCase(s) == [i \in DOMAIN s |-> LowerChar(s[i])]

\* String.prototype.includes
includes(s, sub) ==
    \E i \in 0..(Len(s) - Len(sub)) : SubSeq(s, i + 1, i + Len(sub)) = sub

\* Math.floor(r * n) for a value r = <<k, den>> of Math.random()
FloorMul(r, n) == (r[1] * n) \div r[2]

\* the values Math.random() takes on a grid of den points of [0, 1)
RandomVals(den) == {<<k, den>> : k \in 0..(den - 1)}

-----------------------------------------------------------------------------
(* The helper functions, lines 373-422 *)

NoContent == <<"(", "n", "o", " ", "c", "o", "n", "t", "e", "n", "t", ")">>

Ellipsis == <<".", ".", ".">>

NoSentences == <<"N", "o", " ", "c", "o", "n", "t", "e", "n", "t", " ", "t", "o", " ", "g",
    "e", "n", "e", "r", "a", "t", "e", " ", "f", "r", "o", "m", ".">>

Fallback == <<"R", "e", "v", "i", "e", "w", " ", "t", "h", "e", " ", "t", "e", "x", "t", " ",
    "f", "o", "r", " ", "d", "e", "t", "a", "i", "l", "s", ".">>

PdfStubText == <<"[", "P", "D", "F", " ", "p", "a", "r", "s", "i", "n", "g", " ", "r", "e",
    "q", "u", "i", "r", "e", "d", "]">>

ChoiceCap == 80

QuoteCap == 120

CandidateCap == 20

NumDistractors == 3

GenLimit == 4

\* a mutant of shorten: the slice keeps one character too many
shorten_SliceOneMore(text, n) ==
    IF text = <<>> THEN NoContent
    ELSE IF Len(text) <= n THEN text
    ELSE SubSeq(text, 1, n + 1) \o Ellipsis

shorten(text, n) ==
    IF text = <<>> THEN NoContent
    ELSE IF Len(text) <= n THEN text
    ELSE SubSeq(text, 1, n) \o Ellipsis

\* text.replace(/\n/g, " ")
replaceNewlines(text) == [i \in DOMAIN text |-> IF text[i] = "\n" THEN " " ELSE text[i]]

\* the last index of the run of whitespace that starts at index i (i - 1: none)
SpaceRunEnd(s, i) ==
    LET ends == {j \in i..Len(s) : \A m \in i..j : IsSpace(s[m])}
    IN  IF ends = {} THEN i - 1 ELSE CHOOSE j \in ends : \A k \in ends : k <= j

\* /(?<=[.?!])\s+(?=[A-Z0-9])/ tried at index q: the last index of the match, or
\* 0 when there is none. \s+ is greedy and what follows a shorter run is
\* whitespace, so only the whole run can be followed by [A-Z0-9].
MatchEnd(s, q) ==
    LET e == SpaceRunEnd(s, q)
    IN  IF /\ q > 1
           /\ IsEndMark(s[q - 1])
           /\ e >= q
           /\ e < Len(s)
           /\ IsUpperOrDigit(s[e + 1])
        THEN e ELSE 0

\* String.prototype.split with that pattern: the pieces between the matches.
\* A match starts right after an end mark and covers whitespace only, so no
\* match starts inside another and the scan of split finds every one of them.
split(s) ==
    LET M == {q \in 1..Len(s) : MatchEnd(s, q) # 0}
        n == Cardinality(M)
        kth(k) == CHOOSE q \in M : Cardinality({m \in M : m <= q}) = k
        start(k) == IF k = 1 THEN 1 ELSE MatchEnd(s, kth(k - 1)) + 1
        stop(k) == IF k = n + 1 THEN Len(s) ELSE kth(k) - 1
    IN  [k \in 1..(n + 1) |-> SubSeq(s, start(k), stop(k))]

\* String.prototype.trim
trim(s) ==
    LET keep == {i \in DOMAIN s : ~IsSpace(s[i])}
    IN  IF keep = {} THEN <<>>
        ELSE SubSeq(s, CHOOSE i \in keep : \A k \in keep : i <= k,
                       CHOOSE j \in keep : \A k \in keep : k <= j)

NonEmpty(p) == p # <<>>

\* a mutant of extractSentences: without .filter(Boolean)
extractSentences_NoFilter(text) ==
    IF text = <<>> THEN <<>>
    ELSE LET pieces == split(replaceNewlines(text))
         IN  [i \in DOMAIN pieces |-> trim(pieces[i])]

extractSentences(text) ==
    IF text = <<>> THEN <<>>
    ELSE LET pieces == split(replaceNewlines(text))
             trimmed == [i \in DOMAIN pieces |-> trim(pieces[i])]
         IN  SelectSeq(trimmed, NonEmpty)

\* a mutant of pickSentences: the placeholder is repeated limit times
pickSentences_PlaceholderPerPick(sentences, limit, rnd) ==
    IF Len(sentences) = 0 THEN [i \in 1..limit |-> NoSentences]
    ELSE [i \in 1..limit |-> sentences[FloorMul(rnd[i], Len(sentences)) + 1]]

\* rnd: the values Math.random() returns, in call order
pickSentences(sentences, limit, rnd) ==
    IF Len(sentences) = 0 THEN <<NoSentences>>
    ELSE [i \in 1..limit |-> sentences[FloorMul(rnd[i], Len(sentences)) + 1]]

\* a mutant of makeDistractors: pool.slice(0, 20).filter(...), capped first
makeDistractors_CapFirst(seed, pool, num, rnd) ==
    LET other(p) == p # seed
        candidates == SelectSeq(SubSeq(pool, 1, Min(CandidateCap, Len(pool))), other)
        at(i) == FloorMul(rnd[i], Len(candidates)) + 1
        pick(i) == IF at(i) \in DOMAIN candidates /\ candidates[at(i)] # <<>>
                   THEN candidates[at(i)] ELSE Fallback
        distractors == [i \in 1..num |-> shorten(pick(i), ChoiceCap)]
    IN  <<shorten(seed, ChoiceCap)>> \o distractors

\* a mutant of makeDistractors: the correct answer is placed last
makeDistractors_CorrectLast(seed, pool, num, rnd) ==
    LET other(p) == p # seed
        filtered == SelectSeq(pool, other)
        candidates == SubSeq(filtered, 1, Min(CandidateCap, Len(filtered)))
        at(i) == FloorMul(rnd[i], Len(candidates)) + 1
        pick(i) == IF at(i) \in DOMAIN candidates /\ candidates[at(i)] # <<>>
                   THEN candidates[at(i)] ELSE Fallback
        distractors == [i \in 1..num |-> shorten(pick(i), ChoiceCap)]
    IN  distractors \o <<shorten(seed, ChoiceCap)>>

makeDistractors(seed, pool, num, rnd) ==
    LET other(p) == p # seed
        filtered == SelectSeq(pool, other)
        candidates == SubSeq(filtered, 1, Min(CandidateCap, Len(filtered)))
        at(i) == FloorMul(rnd[i], Len(candidates)) + 1
        \* candidates[...] || "Review the text for details."
        pick(i) == IF at(i) \in DOMAIN candidates /\ candidates[at(i)] # <<>>
                   THEN candidates[at(i)] ELSE Fallback
        distractors == [i \in 1..num |-> shorten(pick(i), ChoiceCap)]
    IN  <<shorten(seed, ChoiceCap)>> \o distractors

sampleProgress ==
    << [month |-> <<"J", "a", "n">>, score |-> 45], [month |-> <<"F", "e", "b">>, score |-> 52],
       [month |-> <<"M", "a", "r">>, score |-> 58], [month |-> <<"A", "p", "r">>, score |-> 62],
       [month |-> <<"M", "a", "y">>, score |-> 68], [month |-> <<"J", "u", "n">>, score |-> 72],
       [month |-> <<"J", "u", "l">>, score |-> 75], [month |-> <<"A", "u", "g">>, score |-> 80] >>

-----------------------------------------------------------------------------
(* The bounds of the calls of the helper functions, and sample sentences *)

MaxTextLen == 5

MaxStrLen == 4

MaxCap == 5

MaxSentences == 3

MaxLimit == 3

MaxPool == 2

PureRandDen == 2

NearOne == 1000

\* the smallest value of Math.random() and a value just below 1
ExtremeSamples == {<<0, 1>>, <<NearOne - 1, NearOne>>}

\* the values of Math.random() the model draws: a grid of [0, 1) and a value
\* just below 1
RandomSamples(den) == RandomVals(den) \cup {<<NearOne - 1, NearOne>>}

SeqsUpTo(S, n) == UNION {[1..k -> S] : k \in 0..n}

TextAlphabet == {".", "?", " ", "\n", "A", "b", "7"}

ExampleText == <<"H", "e", "l", "l", "o", " ", "w", "o", "r", "l", "d", ".", " ", "T", "h",
    "i", "s", " ", "I", "s", " ", "F", "i", "n", "e", "!", " ", "N", "e", "x", "t", " ", "o",
    "n", "e", "?">>

ExampleSentences == <<<<"H", "e", "l", "l", "o", " ", "w", "o", "r", "l", "d", ".">>, <<"T",
    "h", "i", "s", " ", "I", "s", " ", "F", "i", "n", "e", "!">>, <<"N", "e", "x", "t", " ",
    "o", "n", "e", "?">>>>

SA == <<"A", ".">>

SB == <<"B", " ", "b", "?">>

\* two sentences longer than ChoiceCap that agree on their first ChoiceCap characters
LongSentence(c) == <<"L">> \o Rep("o", ChoiceCap) \o <<c, ".">>

\* a sentence longer than QuoteCap
VeryLongSentence == <<"V">> \o Rep("e", QuoteCap) \o <<"!">>

\* sentence number i of a list longer than CandidateCap
Numbered(i) == <<"N", DigitChars[(i \div 10) + 1], DigitChars[(i % 10) + 1], ".">>

BigPool == [i \in 1..(CandidateCap + 2) |-> Numbered(i)]

PureSentences == {SA, SB, LongSentence("a"), LongSentence("b")}

NoArgs == [text |-> <<>>, n |-> 0, sentences |-> <<>>, limit |-> 0, seed |-> <<>>, pool |-> <<>>]

Call(fn, args) == [fn |-> fn] @@ args @@ NoArgs

NoRet == [done |-> FALSE, value |-> <<>>, rnd |-> <<>>]

Returned(v, rnd) == [done |-> TRUE, value |-> v, rnd |-> rnd]

-----------------------------------------------------------------------------
(* JSON.stringify and JSON.parse. A JSON text is modelled by its syntax tree:
   a string, a number, true, an array of texts, or an object, the sequence of
   its <<key, text>> members in the order JSON.stringify writes them (the
   order the keys were inserted in). *)

JsonString(s) == <<"string", s>>

JsonNumber(n) == <<"number", n>>

JsonTrue == <<"true">>

JsonArray(items) == <<"array", items>>

JsonObject(members) == <<"object", members>>

RECURSIVE JSONparse(_)
JSONparse(j) ==
    CASE j[1] = "string" -> j[2]
      [] j[1] = "number" -> j[2]
      [] j[1] = "true" -> TRUE
      [] j[1] = "array" -> [i \in DOMAIN j[2] |-> JSONparse(j[2][i])]
      [] j[1] = "object" ->
            [k \in {j[2][i][1] : i \in DOMAIN j[2]} |->
                JSONparse(j[2][CHOOSE i \in DOMAIN j[2] : j[2][i][1] = k][2])]

stringifyProfile(p) ==
    JsonObject(<< <<"name", JsonString(p.name)>>,
                  <<"institution", JsonString(p.institution)>>,
                  <<"syllabus", JsonString(p.syllabus)>>,
                  <<"qualification", JsonString(p.qualification)>>,
                  <<"nationality", JsonString(p.nationality)>>,
                  <<"learningStyle", JsonString(p.learningStyle)>> >>)

stringifyDocument(d) ==
    JsonObject(<< <<"id", JsonNumber(d.id)>>,
                  <<"name", JsonString(d.name)>>,
                  <<"size", JsonNumber(d.size)>>,
                  <<"text", JsonString(d.text)>>,
                  <<"uploadedAt", JsonString(d.uploadedAt)>> >>
               \o (IF "pdfStub" \in DOMAIN d THEN << <<"pdfStub", JsonTrue>> >> ELSE <<>>))

stringifyDocuments(docs) == JsonArray([i \in DOMAIN docs |-> stringifyDocument(docs[i])])

stringifyItem(it) ==
    JsonObject(<< <<"id", JsonNumber(it.id)>>,
                  <<"type", JsonString(it.type)>>,
                  <<"question", JsonString(it.question)>> >>
               \o (IF "choices" \in DOMAIN it
                   THEN << <<"choices",
                             JsonArray([i \in DOMAIN it.choices |-> JsonString(it.choices[i])])>> >>
                   ELSE <<>>)
               \o << <<"answer", JsonString(it.answer)>> >>)

stringifyAssessment(a) ==
    JsonObject(<< <<"id", JsonNumber(a.id)>>,
                  <<"docId", JsonNumber(a.docId)>>,
                  <<"title", JsonString(a.title)>>,
                  <<"items", JsonArray([i \in DOMAIN a.items |-> stringifyItem(a.items[i])])>>,
                  <<"createdAt", JsonString(a.createdAt)>> >>)

stringifyAssessments(as) == JsonArray([i \in DOMAIN as |-> stringifyAssessment(as[i])])

-----------------------------------------------------------------------------
(* The component: state, handlers and effects, lines 37-166 and 170-345 *)

Routes == {"dashboard", "upload", "assessments", "profile"}

EmptyProfile ==
    [name |-> <<>>, institution |-> <<>>, syllabus |-> <<>>, qualification |-> <<>>,
     nationality |-> <<>>, learningStyle |-> <<>>]

StorageKeys == {"sc_profile", "sc_documents", "sc_assessments"}

\* localStorage.getItem gives null for a key that is absent
Absent == [present |-> FALSE, value |-> <<>>]

Stored(text) == [present |-> TRUE, value |-> text]

setItem(st, key, text) == [st EXCEPT ![key] = Stored(text)]

removeItem(st, key) == [st EXCEPT ![key] = Absent]

\* String.prototype.endsWith
endsWith(s, suffix) ==
    Len(s) >= Len(suffix) /\ SubSeq(s, Len(s) - Len(suffix) + 1, Len(s)) = suffix

IsoPrefix == <<"1", "9", "7", "0", "-", "0", "1", "-", "0", "1", "T", "0", "0", ":", "0", "0",
    ":", "0", "0", ".">>

\* new Date(t).toISOString() for a clock of t milliseconds, t < 1000
toISOString(t) ==
    IsoPrefix \o <<DigitChars[(t \div 100) + 1], DigitChars[((t \div 10) % 10) + 1],
                   DigitChars[(t % 10) + 1], "Z">>

TitlePrefix == <<"A", "u", "t", "o", " ", "A", "s", "s", "e", "s", "s", "m", "e", "n", "t",
    " ", "-", " ">>

McqPrefix == <<"W", "h", "a", "t", " ", "b", "e", "s", "t", " ", "e", "x", "p", "l", "a", "i",
    "n", "s", ":", " ", "\"">>

McqSuffix == <<"\"", "?">>

ShortPrefix == <<"E", "x", "p", "l", "a", "i", "n", ":", " ", "\"">>

ShortSuffix == <<"\"">>

textDocument(file, text, t) ==
    [id |-> t, name |-> file.name, size |-> file.size, text |-> text,
     uploadedAt |-> toISOString(t)]

pdfStubDocument(file, t) ==
    [id |-> t, name |-> file.name, size |-> file.size, text |-> PdfStubText,
     uploadedAt |-> toISOString(t), pdfStub |-> TRUE]

\* setDocuments((s) => [doc, ...s])
addDocument(doc, s) == <<doc>> \o s

\* a mutant of addAssessment: the new assessment replaces the list
addAssessment_Replace(assessment, s) == <<assessment>>

\* setAssessments((s) => [assessment, ...s])
addAssessment(assessment, s) == <<assessment>> \o s

\* documents.find((d) => d.id === docId): the index of the first match, 0 for none
findDocument(docs, docId) ==
    IF \E i \in DOMAIN docs : docs[i].id = docId
    THEN CHOOSE i \in DOMAIN docs :
            docs[i].id = docId /\ \A j \in 1..(i - 1) : docs[j].id # docId
    ELSE 0

\* how many values of Math.random() generateAssessmentFromDoc consumes at most
TapeLen == GenLimit + GenLimit * NumDistractors

\* the item built from pick number i: its distractors take the draws that follow
\* those of pickSentences and of the items before it
buildItem(s, i, sentences, type, drawn, rnd, t) ==
    IF type = "mcq"
    THEN LET first == drawn + (i - 1) * NumDistractors
             choices == makeDistractors(s, sentences, NumDistractors,
                                        [k \in 1..NumDistractors |-> rnd[first + k]])
         IN  [id |-> t + (i - 1), type |-> "mcq",
              question |-> McqPrefix \o shorten(s, QuoteCap) \o McqSuffix,
              choices |-> choices, answer |-> choices[1]]
    ELSE [id |-> t + (i - 1), type |-> "short",
          question |-> ShortPrefix \o shorten(s, QuoteCap) \o ShortSuffix,
          answer |-> s]

\* the picks of generateAssessmentFromDoc, line 118
picksOf(doc, limit, rnd) == pickSentences(extractSentences(doc.text), limit, rnd)

\* the assessment generateAssessmentFromDoc builds from a document, at clock t
buildAssessment(doc, type, limit, rnd, t) ==
    LET sentences == extractSentences(doc.text)
        picks == picksOf(doc, limit, rnd)
        drawn == IF Len(sentences) = 0 THEN 0 ELSE limit
    IN  [id |-> t, docId |-> doc.id, title |-> TitlePrefix \o doc.name,
         items |-> [i \in DOMAIN picks |->
                       buildItem(picks[i], i, sentences, type, drawn, rnd, t)],
         createdAt |-> toISOString(t)]

\* a mutant of markAssessmentProgress: without Math.min(100, ...)
markAssessmentProgress_NoCap(data, r1, r2) ==
    LET idx == FloorMul(r1, Len(data)) + 1
    IN  [data EXCEPT ![idx].score = data[idx].score + FloorMul(r2, 20)]

\* the series markAssessmentProgress sets, for the two values of Math.random()
markAssessmentProgress(data, r1, r2) ==
    LET idx == FloorMul(r1, Len(data)) + 1
    IN  [data EXCEPT ![idx].score = Min(100, data[idx].score + FloorMul(r2, 20))]

\* updateProfileField: (p) => ({ ...p, [field]: value })
updateProfileField(p, field, value) == [p EXCEPT ![field] = value]

DepthAdvice == <<"F", "o", "c", "u", "s", " ", "o", "n", " ", "c", "o", "n", "c", "e", "p",
    "t", "u", "a", "l", " ", "d", "e", "p", "t", "h", " ", "a", "n", "d", " ", "p", "a", "s",
    "t", "-", "y", "e", "a", "r", " ", "e", "x", "a", "m", " ", "p", "a", "t", "t", "e", "r",
    "n", "s", ".">>

ProblemSetAdvice == <<"D", "o", " ", "d", "a", "i", "l", "y", " ", "p", "r", "o", "b", "l",
    "e", "m", " ", "s", "e", "t", "s", ";", " ", "m", "i", "x", " ", "t", "i", "m", "e", "d",
    " ", "q", "u", "i", "z", "z", "e", "s", " ", "a", "n", "d", " ", "l", "o", "n", "g", "-",
    "f", "o", "r", "m", " ", "p", "r", "o", "o", "f", "s", ".">>

BoardAdvice == <<"B", "a", "l", "a", "n", "c", "e", " ", "b", "o", "a", "r", "d", "-", "s",
    "t", "y", "l", "e", " ", "M", "C", "Q", "s", " ", "w", "i", "t", "h", " ", "s", "u", "b",
    "j", "e", "c", "t", "i", "v", "e", " ", "p", "r", "a", "c", "t", "i", "c", "e", " ", "(",
    "c", "o", "m", "m", "o", "n", " ", "i", "n", " ", "m", "a", "n", "y", " ", "I", "n", "d",
    "i", "a", "n", " ", "e", "x", "a", "m", "s", ")", ".">>

UploadSyllabusAdvice == <<"U", "p", "l", "o", "a", "d", " ", "a", " ", "s", "y", "l", "l", "a",
    "b", "u", "s", " ", "o", "r", " ", "s", "a", "m", "p", "l", "e", " ", "n", "o", "t", "e",
    "s", " ", "f", "o", "r", " ", "m", "o", "r", "e", " ", "t", "a", "i", "l", "o", "r", "e",
    "d", " ", "s", "u", "g", "g", "e", "s", "t", "i", "o", "n", "s", ".">>

SpacedRepetitionAdvice == <<"U", "s", "e", " ", "s", "p", "a", "c", "e", "d", " ", "r", "e",
    "p", "e", "t", "i", "t", "i", "o", "n", ":", " ", "c", "r", "e", "a", "t", "e", " ", "f",
    "l", "a", "s", "h", "c", "a", "r", "d", "s", " ", "f", "r", "o", "m", " ", "e", "a", "c",
    "h", " ", "d", "o", "c", "'", "s", " ", "k", "e", "y", " ", "f", "a", "c", "t", "s", ".">>

TailorPrefix == <<"T", "a", "i", "l", "o", "r", " ", "m", "a", "t", "e", "r", "i", "a", "l",
    "s", " ", "t", "o", " ", "y", "o", "u", "r", " ", "l", "e", "a", "r", "n", "i", "n", "g",
    " ", "s", "t", "y", "l", "e", ":", " ">>

\* the character U+2014 of the source is written as one element, "U+2014"
NoProfileData == <<"N", "o", " ", "p", "r", "o", "f", "i", "l", "e", " ", "d", "a", "t", "a",
    " ", "y", "e", "t", " ", "U+2014", " ", "f", "i", "l", "l", " ", "i", "n", " ", "y", "o",
    "u", "r", " ", "p", "r", "o", "f", "i", "l", "e", " ", "f", "o", "r", " ", "p", "e", "r",
    "s", "o", "n", "a", "l", "i", "z", "e", "d", " ", "s", "u", "g", "g", "e", "s", "t", "i",
    "o", "n", "s", ".">>

Bachelor == <<"b", "a", "c", "h", "e", "l", "o", "r">>

Undergrad == <<"u", "n", "d", "e", "r", "g", "r", "a", "d">>

Math == <<"m", "a", "t", "h">>

Calculus == <<"c", "a", "l", "c", "u", "l", "u", "s">>

India == <<"i", "n", "d", "i", "a">>

ManyDocs == 3

\* a mutant of generateAISuggestions: the nationality rule is an else-branch of
\* the syllabus rule
generateAISuggestions_ElseIf(p, docs) ==
    LET q == toLowerCase(p.qualification)
        sy == toLowerCase(p.syllabus)
        b1 == IF includes(q, Bachelor) \/ includes(q, Undergrad)
              THEN <<DepthAdvice>> ELSE <<>>
        b2 == IF includes(sy, Math) \/ includes(sy, Calculus)
              THEN Append(b1, ProblemSetAdvice)
              ELSE IF p.nationality # <<>> /\ toLowerCase(p.nationality) = India
                   THEN Append(b1, BoardAdvice) ELSE b1
        b4 == IF p.syllabus = <<>> THEN Append(b2, UploadSyllabusAdvice) ELSE b2
        b5 == IF Len(docs) >= ManyDocs THEN Append(b4, SpacedRepetitionAdvice) ELSE b4
        b6 == IF p.learningStyle # <<>>
              THEN Append(b5, TailorPrefix \o p.learningStyle \o <<".">>) ELSE b5
    IN  IF Len(b6) # 0 THEN b6 ELSE <<NoProfileData>>

\* a mutant of generateAISuggestions: documents.length > 3
generateAISuggestions_MoreThan(p, docs) ==
    LET q == toLowerCase(p.qualification)
        sy == toLowerCase(p.syllabus)
        b1 == IF includes(q, Bachelor) \/ includes(q, Undergrad)
              THEN <<DepthAdvice>> ELSE <<>>
        b2 == IF includes(sy, Math) \/ includes(sy, Calculus)
              THEN Append(b1, ProblemSetAdvice) ELSE b1
        b3 == IF p.nationality # <<>> /\ toLowerCase(p.nationality) = India
              THEN Append(b2, BoardAdvice) ELSE b2
        b4 == IF p.syllabus = <<>> THEN Append(b3, UploadSyllabusAdvice) ELSE b3
        b5 == IF Len(docs) > ManyDocs THEN Append(b4, SpacedRepetitionAdvice) ELSE b4
        b6 == IF p.learningStyle # <<>>
              THEN Append(b5, TailorPrefix \o p.learningStyle \o <<".">>) ELSE b5
    IN  IF Len(b6) # 0 THEN b6 ELSE <<NoProfileData>>

\* generateAISuggestions, of the profile and the documents of the render: bk is
\* the array base after the k-th if statement
generateAISuggestions(p, docs) ==
    LET q == toLowerCase(p.qualification)
        sy == toLowerCase(p.syllabus)
        b1 == IF includes(q, Bachelor) \/ includes(q, Undergrad)
              THEN <<DepthAdvice>> ELSE <<>>
        b2 == IF includes(sy, Math) \/ includes(sy, Calculus)
              THEN Append(b1, ProblemSetAdvice) ELSE b1
        b3 == IF p.nationality # <<>> /\ toLowerCase(p.nationality) = India
              THEN Append(b2, BoardAdvice) ELSE b2
        b4 == IF p.syllabus = <<>> THEN Append(b3, UploadSyllabusAdvice) ELSE b3
        b5 == IF Len(docs) >= ManyDocs THEN Append(b4, SpacedRepetitionAdvice) ELSE b4
        b6 == IF p.learningStyle # <<>>
              THEN Append(b5, TailorPrefix \o p.learningStyle \o <<".">>) ELSE b5
    IN  IF Len(b6) # 0 THEN b6 ELSE <<NoProfileData>>

\* a mutant of saveProfileEffect: the profile is written under another key
saveProfileEffect_WrongKey(st, p) == setItem(st, "sc_documents", stringifyProfile(p))

\* the effects of lines 68-78
saveProfileEffect(st, p) == setItem(st, "sc_profile", stringifyProfile(p))

saveDocumentsEffect(st, docs) == setItem(st, "sc_documents", stringifyDocuments(docs))

saveAssessmentsEffect(st, as) == setItem(st, "sc_assessments", stringifyAssessments(as))

-----------------------------------------------------------------------------
(* What the user and the environment supply *)

MaxDocs == 1

MaxAssessments == 2

MaxNow == 1

AppMaxGain == 1

GenMaxAssessments == 1

\* the files the user selects
NotesTxt ==
    [name |-> <<"n", ".", "t", "x", "t">>, type |-> <<"t", "e", "x", "t", "/", "p", "l", "a",
    "i", "n">>, size |-> 2 * ChoiceCap + 10,
     text |-> LongSentence("a") \o <<" ">> \o LongSentence("b") \o <<"\n">> \o SA]

EmptyTxt == [name |-> <<"e", ".", "t", "x", "t">>, type |-> <<"t", "e", "x", "t", "/", "p",
    "l", "a", "i", "n">>, size |-> 0, text |-> <<>>]

SlidesPdf == [name |-> <<"s", ".", "p", "d", "f">>, type |-> <<"a", "p", "p", "l", "i", "c",
    "a", "t", "i", "o", "n", "/", "p", "d", "f">>, size |-> 9, text |-> <<>>]

DataMd ==
    [name |-> <<"d", ".", "m", "d">>, type |-> <<>>, size |-> QuoteCap + 13,
     text |-> VeryLongSentence \o <<" ">> \o SB \o <<" ", " ">> \o SB]

TextPlain == <<"t", "e", "x", "t", "/", "p", "l", "a", "i", "n">>

DotTxt == <<".", "t", "x", "t">>

ApplicationPdf == <<"a", "p", "p", "l", "i", "c", "a", "t", "i", "o", "n", "/", "p", "d", "f">>

DotPdf == <<".", "p", "d", "f">>

\* the sequences of values of Math.random() one handler call may see: a base
\* sequence of period values, repeated
\* the tapes that repeat one value
ConstantTapes == {[i \in 1..TapeLen |-> r] : r \in ExtremeSamples}

\* the tapes that alternate between two values
AlternatingTapes ==
    {[i \in 1..TapeLen |-> IF i % 2 = 1 THEN a ELSE b] : a, b \in ExtremeSamples}

ZeroTape == [i \in 1..TapeLen |-> <<0, 1>>]

\* what an earlier session of the program left in localStorage: its profile,
\* one PDF stub and one assessment generated from it, at clock 0
PriorProfile == [EmptyProfile EXCEPT !.name = <<"A", "l">>]

PriorDocuments == <<pdfStubDocument(SlidesPdf, 0)>>

PriorAssessments == <<buildAssessment(PriorDocuments[1], "mcq", GenLimit, ZeroTape, 0)>>

PriorPicks == <<picksOf(PriorDocuments[1], GenLimit, ZeroTape)>>

EmptyStorage == [k \in StorageKeys |-> Absent]

PriorStorage ==
    saveAssessmentsEffect(
        saveDocumentsEffect(saveProfileEffect(EmptyStorage, PriorProfile), PriorDocuments),
        PriorAssessments)

TotalGain(data) ==
    LET gain[i \in 0..Len(data)] ==
            IF i = 0 THEN 0 ELSE gain[i - 1] + (data[i].score - sampleProgress[i].score)
    IN  gain[Len(data)]

-----------------------------------------------------------------------------
(* The state machine. React runs the effects of a commit before it handles
   the next event, so a handler runs only when no effect is pending. *)

Effects == {"load", "saveProfile", "saveDocuments", "saveAssessments"}

\* the component is mounted: the state of the useState initialisers, every
\* effect pending, localStorage empty or as an earlier session left it
Init ==
    /\ route = "dashboard"
    /\ profile = EmptyProfile
    /\ documents = <<>>
    /\ assessments = <<>>
    /\ progressData = sampleProgress
    /\ storage \in {EmptyStorage, PriorStorage}
    /\ pending = Effects
    /\ reading = <<>>
    /\ now = 1
    /\ picksLog = <<>>
    /\ lastEvent = "mount"
    /\ call = Call("none", NoArgs)
    /\ ret = NoRet

\* the effects of one commit, in the order of lines 58-78: the load effect reads
\* localStorage and sets state for the next render, the save effects write the
\* state of this render
RunEffects ==
    /\ pending # {}
    /\ LET load == "load" \in pending
           p == storage["sc_profile"]
           docs == storage["sc_documents"]
           asses == storage["sc_assessments"]
           st1 == IF "saveProfile" \in pending
                  THEN saveProfileEffect(storage, profile) ELSE storage
           st2 == IF "saveDocuments" \in pending
                  THEN saveDocumentsEffect(st1, documents) ELSE st1
           st3 == IF "saveAssessments" \in pending
                  THEN saveAssessmentsEffect(st2, assessments) ELSE st2
       IN  /\ profile' = IF load /\ p.present THEN JSONparse(p.value) ELSE profile
           /\ documents' = IF load /\ docs.present THEN JSONparse(docs.value) ELSE documents
           /\ assessments' =
                 IF load /\ asses.present THEN JSONparse(asses.value) ELSE assessments
           /\ picksLog' = IF load /\ asses.present THEN PriorPicks ELSE picksLog
           /\ storage' = st3
           /\ pending' = {e \in Effects :
                            \/ e = "saveProfile" /\ load /\ p.present
                            \/ e = "saveDocuments" /\ load /\ docs.present
                            \/ e = "saveAssessments" /\ load /\ asses.present}
    /\ UNCHANGED <<route, progressData, reading, now, lastEvent, call, ret>>

\* the navigation buttons, lines 173-176, 193 and 211
SetRoute(r) ==
    /\ pending = {}
    /\ route' = r
    /\ lastEvent' = "setRoute"
    /\ UNCHANGED <<profile, documents, assessments, progressData, storage, pending,
                   reading, now, picksLog, call, ret>>

\* handleFileUpload for a selected file; the inputs are on the dashboard and on
\* the upload panel
HandleFileUpload(file) ==
    /\ pending = {}
    /\ route \in {"dashboard", "upload"}
    /\ lastEvent' = "handleFileUpload"
    /\ IF file.type = TextPlain \/ endsWith(file.name, DotTxt)
       THEN /\ reading' = Append(reading, file)
            /\ UNCHANGED <<documents, pending, now>>
       ELSE IF file.type = ApplicationPdf \/ endsWith(file.name, DotPdf)
       THEN \E t \in now..MaxNow :
               /\ now' = t
               /\ documents' = addDocument(pdfStubDocument(file, t), documents)
               /\ pending' = {"saveDocuments"}
               /\ UNCHANGED reading
       ELSE /\ reading' = Append(reading, file)
            /\ UNCHANGED <<documents, pending, now>>
    /\ UNCHANGED <<route, profile, assessments, progressData, storage, picksLog, call, ret>>

\* reader.onload of the read at position i, lines 89-94 and 104-109
ReaderOnload(i) ==
    /\ pending = {}
    /\ i \in DOMAIN reading
    /\ \E t \in now..MaxNow :
          /\ now' = t
          /\ documents' = addDocument(textDocument(reading[i], reading[i].text, t), documents)
    /\ reading' = SubSeq(reading, 1, i - 1) \o SubSeq(reading, i + 1, Len(reading))
    /\ route' = "upload"
    /\ pending' = {"saveDocuments"}
    /\ lastEvent' = "onload"
    /\ UNCHANGED <<profile, assessments, progressData, storage, picksLog, call, ret>>

\* generateAssessmentFromDoc(d.id, type, 4) from the buttons of document i,
\* lines 251-252; the clock is read once for the whole call
GenerateAssessmentFromDoc(i, type, rnd) ==
    /\ pending = {}
    /\ route = "upload"
    /\ i \in DOMAIN documents
    /\ LET found == findDocument(documents, documents[i].id)
       IN  /\ found # 0
           /\ \E t \in now..MaxNow :
                 /\ now' = t
                 /\ assessments' =
                       addAssessment(buildAssessment(documents[found], type, GenLimit, rnd, t),
                                     assessments)
           /\ picksLog' = <<picksOf(documents[found], GenLimit, rnd)>> \o picksLog
    /\ route' = "assessments"
    /\ pending' = {"saveAssessments"}
    /\ lastEvent' = "generateAssessmentFromDoc"
    /\ UNCHANGED <<profile, documents, progressData, storage, reading, call, ret>>

\* markAssessmentProgress from the button of an assessment, line 273
MarkAssessmentProgress(r1, r2) ==
    /\ pending = {}
    /\ route = "assessments"
    /\ assessments # <<>>
    /\ progressData' = markAssessmentProgress(progressData, r1, r2)
    /\ lastEvent' = "markAssessmentProgress"
    /\ UNCHANGED <<route, profile, documents, assessments, storage, pending, reading,
                   now, picksLog, call, ret>>

\* updateProfileField from an input of the profile form, lines 308-333
UpdateProfileField(field, value) ==
    /\ pending = {}
    /\ route = "profile"
    /\ profile' = updateProfileField(profile, field, value)
    /\ pending' = {"saveProfile"}
    /\ lastEvent' = "updateProfileField"
    /\ UNCHANGED <<route, documents, assessments, progressData, storage, reading, now,
                   picksLog, call, ret>>

\* the Reset button, line 344
ResetProfile ==
    /\ pending = {}
    /\ route = "profile"
    /\ profile' = EmptyProfile
    /\ storage' = removeItem(storage, "sc_profile")
    /\ pending' = {"saveProfile"}
    /\ lastEvent' = "reset"
    /\ UNCHANGED <<route, documents, assessments, progressData, reading, now, picksLog,
                   call, ret>>

AppFiles == {SlidesPdf, EmptyTxt}

AppEdits == {<<"syllabus", Math>>}

Next ==
    \/ RunEffects
    \/ \E r \in Routes : SetRoute(r)
    \/ \E f \in AppFiles :
          Len(documents) + Len(reading) < MaxDocs /\ HandleFileUpload(f)
    \/ \E i \in 1..MaxDocs : ReaderOnload(i)
    \/ \E i \in 1..MaxDocs, type \in {"mcq", "short"}, rnd \in ConstantTapes :
          Len(assessments) < MaxAssessments /\ GenerateAssessmentFromDoc(i, type, rnd)
    \/ \E r1, r2 \in ExtremeSamples :
          TotalGain(progressData) < AppMaxGain /\ MarkAssessmentProgress(r1, r2)
    \/ \E e \in AppEdits : UpdateProfileField(e[1], e[2])
    \/ ResetProfile

Spec == Init /\ [][Next]_vars

\* generation from every kind of file, with more varied draws
GenFiles == {NotesTxt, EmptyTxt, SlidesPdf, DataMd}

NextGenerate ==
    \/ RunEffects
    \/ \E r \in Routes : SetRoute(r)
    \/ \E f \in GenFiles :
          Len(documents) + Len(reading) < MaxDocs /\ HandleFileUpload(f)
    \/ \E i \in 1..MaxDocs : ReaderOnload(i)
    \/ \E i \in 1..MaxDocs, type \in {"mcq", "short"}, rnd \in AlternatingTapes :
          Len(assessments) < GenMaxAssessments /\ GenerateAssessmentFromDoc(i, type, rnd)

SpecGenerate == Init /\ [][NextGenerate]_vars

\* the progress simulation, with every increment
MaxGain == 20

ProgressIncrDen == 20

NextProgress ==
    \/ RunEffects
    \/ \E r \in Routes : SetRoute(r)
    \/ \E r1 \in ExtremeSamples, r2 \in RandomSamples(ProgressIncrDen) :
          TotalGain(progressData) < MaxGain /\ MarkAssessmentProgress(r1, r2)

SpecProgress == Init /\ [][NextProgress]_vars

\* the profile form and the document count
SuggestMaxDocs == 5

SuggestEdits ==
    {<<"qualification", v>> : v \in {<<>>, <<"B", "a", "c", "h", "e", "l", "o", "r">>, <<"U",
    "N", "D", "E", "R", "G", "R", "A", "D">>, <<"P", "h", "D">>}}
    \cup {<<"syllabus", v>> : v \in {<<>>, <<"C", "a", "l", "c", "u", "l", "u", "s">>, <<"A",
    "r", "t">>}}
    \cup {<<"nationality", v>> : v \in {<<>>, <<"I", "n", "d", "i", "a">>, <<"I", "n", "d",
    "i", "a", "n">>}}
    \cup {<<"learningStyle", v>> : v \in {<<>>, <<"V", "i", "s", "u", "a", "l", " ", "(", "d",
    "i", "a", "g", "r", "a", "m", "s", " ", "&", " ", "v", "i", "d", "e", "o", "s", ")">>}}

NextSuggest ==
    \/ RunEffects
    \/ \E r \in Routes : SetRoute(r)
    \/ Len(documents) < SuggestMaxDocs /\ HandleFileUpload(SlidesPdf)
    \/ \E e \in SuggestEdits : UpdateProfileField(e[1], e[2])
    \/ ResetProfile

SpecSuggest == Init /\ [][NextSuggest]_vars

-----------------------------------------------------------------------------
(* Calls of the helper functions *)

Calls ==
    {Call("shorten", [text |-> t, n |-> n]) :
        t \in SeqsUpTo({"a", "b"}, MaxStrLen), n \in 0..MaxCap}
    \cup
    {Call("extractSentences", [text |-> t]) :
        t \in SeqsUpTo(TextAlphabet, MaxTextLen) \cup {ExampleText}}
    \cup
    {Call("pickSentences", [sentences |-> ss, limit |-> l]) :
        ss \in SeqsUpTo({SA, SB, LongSentence("a")}, MaxSentences), l \in 0..MaxLimit}
    \cup
    {Call("makeDistractors", [seed |-> s, pool |-> pl]) :
        s \in PureSentences \cup {NoSentences, Numbered(1), Numbered(CandidateCap + 1)},
        pl \in SeqsUpTo(PureSentences, MaxPool) \cup {BigPool}}

InitPure ==
    /\ call \in Calls
    /\ ret = NoRet
    /\ route = "dashboard"
    /\ profile = EmptyProfile
    /\ documents = <<>>
    /\ assessments = <<>>
    /\ progressData = sampleProgress
    /\ storage = EmptyStorage
    /\ pending = {}
    /\ reading = <<>>
    /\ now = 1
    /\ picksLog = <<>>
    /\ lastEvent = "none"

ApplyShorten ==
    /\ call.fn = "shorten" /\ ~ret.done
    /\ ret' = Returned(shorten(call.text, call.n), <<>>)
    /\ UNCHANGED <<call, appVars>>

ApplyExtractSentences ==
    /\ call.fn = "extractSentences" /\ ~ret.done
    /\ ret' = Returned(extractSentences(call.text), <<>>)
    /\ UNCHANGED <<call, appVars>>

ApplyPickSentences ==
    /\ call.fn = "pickSentences" /\ ~ret.done
    /\ \E rnd \in [1..call.limit -> RandomSamples(PureRandDen)] :
          ret' = Returned(pickSentences(call.sentences, call.limit, rnd), rnd)
    /\ UNCHANGED <<call, appVars>>

ApplyMakeDistractors ==
    /\ call.fn = "makeDistractors" /\ ~ret.done
    /\ \E rnd \in [1..NumDistractors -> RandomSamples(PureRandDen)] :
          ret' = Returned(makeDistractors(call.seed, call.pool, NumDistractors, rnd), rnd)
    /\ UNCHANGED <<call, appVars>>

NextPure ==
    \/ ApplyShorten
    \/ ApplyExtractSentences
    \/ ApplyPickSentences
    \/ ApplyMakeDistractors

SpecPure == InitPure /\ [][NextPure]_vars

-----------------------------------------------------------------------------
(* Properties of the helper functions, under SpecPure *)

Did(fn) == call.fn = fn /\ ret.done

\* C2: pickSentences on a non-empty list returns exactly limit elements, each an
\* element of the list; on the empty list it returns the one placeholder
\* sentence, whatever the limit (0 included).
C2_PickSentences ==
    Did("pickSentences") =>
        IF call.sentences = <<>>
        THEN ret.value = <<NoSentences>>
        ELSE /\ Len(ret.value) = call.limit
             /\ \A i \in DOMAIN ret.value : ret.value[i] \in Range(call.sentences)

\* C2 witness: a full-length sample of a list of several sentences that holds
\* the same sentence twice.
C2_Witness ==
    /\ Did("pickSentences")
    /\ Cardinality(Range(call.sentences)) >= 2
    /\ call.limit = MaxLimit
    /\ Len(ret.value) = MaxLimit
    /\ ret.value[1] = ret.value[2]

\* the indices of the pool whose sentences are candidates: those that differ
\* from the seed, the first CandidateCap of them
CandidateIndices(seed, pool) ==
    {i \in DOMAIN pool :
        /\ pool[i] # seed
        /\ Cardinality({j \in 1..i : pool[j] # seed}) <= CandidateCap}

KthCandidate(seed, pool, k) ==
    LET CI == CandidateIndices(seed, pool)
    IN  pool[CHOOSE j \in CI : Cardinality({m \in CI : m <= j}) = k]

\* C3: for a pool of sentences (non-empty strings, as extractSentences gives),
\* makeDistractors(seed, pool, 3) returns 4 choices: shorten(seed, 80), then 3
\* distractors in generation order; distractor i is the fallback string when
\* no pool sentence differs from the seed, and otherwise shorten(p, 80) for the
\* sentence p that draw i selects among the first 20 pool sentences that differ
\* from the seed, filtered first and capped second.
C3_MakeDistractors ==
    Did("makeDistractors") =>
        LET CI == CandidateIndices(call.seed, call.pool)
            n == Cardinality(CI)
        IN  /\ Len(ret.value) = 4
            /\ ret.value[1] = shorten(call.seed, 80)
            /\ \A i \in 1..3 :
                  IF CI = {}
                  THEN ret.value[1 + i] = Fallback
                  ELSE /\ ret.value[1 + i] # Fallback
                       /\ \E j \in CI : ret.value[1 + i] = shorten(call.pool[j], 80)
                       /\ ret.value[1 + i] =
                            shorten(KthCandidate(call.seed, call.pool,
                                                 FloorMul(ret.rnd[i], n) + 1), 80)

\* C3 witness: the seed is among the first 20 sentences of a longer pool and a
\* draw selects sentence 21, the 20th that differs from the seed.
C3_Witness ==
    /\ Did("makeDistractors")
    /\ call.pool = BigPool
    /\ call.seed = Numbered(1)
    /\ ret.value[4] = Numbered(CandidateCap + 1)
    /\ ret.value[2] = Numbered(2)

\* C4 as stated: for every string, the empty one included, shorten(text, n) has
\* length at most n + 3 and equals text when text has at most n characters.
C4_Original ==
    Did("shorten") =>
        /\ Len(ret.value) <= call.n + 3
        /\ (Len(call.text) <= call.n => ret.value = call.text)

\* C4 amended: that holds for every non-empty string; the empty string maps to
\* the placeholder "(no content)" for every cap.
C4_Shorten ==
    Did("shorten") =>
        IF call.text = <<>>
        THEN ret.value = NoContent
        ELSE /\ Len(ret.value) <= call.n + 3
             /\ (Len(call.text) <= call.n => ret.value = call.text)
             /\ (Len(call.text) > call.n =>
                    /\ Len(ret.value) = call.n + 3
                    /\ SubSeq(ret.value, 1, call.n) = SubSeq(call.text, 1, call.n))

\* C4 witness: a string longer than a positive cap has been truncated.
C4_Witness ==
    /\ Did("shorten")
    /\ call.n > 0
    /\ Len(call.text) > call.n
    /\ ret.value # call.text

\* where the pattern of extractSentences can match in a text: whitespace right
\* after an end mark, with an uppercase letter or a digit after the run
SplitPoints(t) ==
    {q \in 2..Len(t) :
        /\ IsEndMark(t[q - 1])
        /\ IsSpace(t[q])
        /\ \E e \in q..(Len(t) - 1) :
              /\ \A m \in q..e : IsSpace(t[m])
              /\ IsUpperOrDigit(t[e + 1])}

NotSpace(c) == ~IsSpace(c)

\* C7: extractSentences returns a value for every text; no element is empty
\* and every element is trimmed; the empty text gives the empty list; the
\* elements are the text's non-whitespace content in order, cut only where an
\* end mark is followed by whitespace and then an uppercase letter or a digit;
\* the example text gives its three sentences.
C7_ExtractSentences ==
    /\ Did("extractSentences") =>
        /\ \A i \in DOMAIN ret.value :
              /\ ret.value[i] # <<>>
              /\ ~IsSpace(ret.value[i][1])
              /\ ~IsSpace(ret.value[i][Len(ret.value[i])])
        /\ (call.text = <<>> => ret.value = <<>>)
        /\ SelectSeq(Flatten(ret.value), NotSpace) = SelectSeq(call.text, NotSpace)
        /\ \A i \in 1..(Len(ret.value) - 1) :
              /\ IsEndMark(ret.value[i][Len(ret.value[i])])
              /\ IsUpperOrDigit(ret.value[i + 1][1])
        /\ Len(ret.value) <= 1 + Cardinality(SplitPoints(call.text))
    /\ (Did("extractSentences") /\ call.text = ExampleText) =>
          ret.value = ExampleSentences

\* C7 witness: a text with a line break and surrounding whitespace has been
\* split in two.
C7_Witness ==
    /\ Did("extractSentences")
    /\ call.text = <<" ", "b", ".", "\n", "7">>
    /\ ret.value = << <<"b", ".">>, <<"7">> >>

-----------------------------------------------------------------------------
(* Properties of the stored assessments, under SpecGenerate *)

\* C1: in every stored assessment, every multiple-choice item has
\* answer = choices[0], and that value is its seed sentence cut to 80
\* characters plus "..." when longer; so also when the document gave no
\* sentence and the seed is the placeholder sentence.
C1_AnswerIsFirstChoice ==
    /\ Len(picksLog) = Len(assessments)
    /\ \A a \in DOMAIN assessments :
          /\ Len(picksLog[a]) = Len(assessments[a].items)
          /\ \A i \in DOMAIN assessments[a].items :
                LET it == assessments[a].items[i]
                    seed == picksLog[a][i]
                IN  it.type = "mcq" =>
                       /\ it.answer = it.choices[1]
                       /\ it.answer = IF Len(seed) <= 80 THEN seed
                                      ELSE SubSeq(seed, 1, 80) \o <<".", ".", ".">>

\* C1 witness: a multiple-choice assessment of an empty document, whose one
\* item has the placeholder sentence as seed, first choice and answer.
C1_Witness ==
    /\ assessments # <<>>
    /\ \E d \in DOMAIN documents :
          documents[d].text = <<>> /\ documents[d].id = assessments[1].docId
    /\ picksLog[1] = <<NoSentences>>
    /\ Len(assessments[1].items) = 1
    /\ assessments[1].items[1].type = "mcq"
    /\ assessments[1].items[1].choices[1] = NoSentences
    /\ assessments[1].items[1].answer = NoSentences

\* C11: in every multiple-choice item of a stored assessment, no distractor
\* (a choice after the first) is equal to the correct choice, the first one.
C11_NoDistractorEqualsCorrect ==
    \A a \in DOMAIN assessments :
       \A i \in DOMAIN assessments[a].items :
          LET it == assessments[a].items[i]
          IN  it.type = "mcq" =>
                 \A k \in 2..Len(it.choices) : it.choices[k] # it.choices[1]

-----------------------------------------------------------------------------
(* Properties of the suggestions, under SpecSuggest *)

\* the rules of the suggestion engine, as the specification states them
RuleHolds(k, p, n) ==
    CASE k = 1 -> \/ includes(toLowerCase(p.qualification), Bachelor)
                  \/ includes(toLowerCase(p.qualification), Undergrad)
      [] k = 2 -> \/ includes(toLowerCase(p.syllabus), Math)
                  \/ includes(toLowerCase(p.syllabus), Calculus)
      [] k = 3 -> toLowerCase(p.nationality) = India
      [] k = 4 -> Len(p.syllabus) = 0
      [] k = 5 -> n >= 3
      [] k = 6 -> Len(p.learningStyle) > 0

RuleString(k, p) ==
    CASE k = 1 -> DepthAdvice
      [] k = 2 -> ProblemSetAdvice
      [] k = 3 -> BoardAdvice
      [] k = 4 -> UploadSyllabusAdvice
      [] k = 5 -> SpacedRepetitionAdvice
      [] k = 6 -> TailorPrefix \o p.learningStyle \o <<".">>

\* what rule k reads
RuleInput(k) ==
    CASE k = 1 -> "qualification"
      [] k = 2 -> "syllabus"
      [] k = 3 -> "nationality"
      [] k = 4 -> "syllabus"
      [] k = 5 -> "documents"
      [] k = 6 -> "learningStyle"

Fired(p, n) == {k \in 1..6 : RuleHolds(k, p, n)}

ChangedFields == {f \in DOMAIN profile : profile'[f] # profile[f]}

\* a step that changes one field of the profile and not the documents
SingleFieldChange ==
    /\ DOMAIN profile' = DOMAIN profile
    /\ Cardinality(ChangedFields) = 1
    /\ documents' = documents

BecomesTrue(k) ==
    /\ ~RuleHolds(k, profile, Len(documents))
    /\ RuleHolds(k, profile', Len(documents'))

\* C5 as stated: a change of one profile field that makes rule k true adds
\* exactly the string of rule k to the suggestions and removes the string of no
\* other rule that held before.
C5_Original ==
    [][SingleFieldChange =>
        \A k \in 1..6 : BecomesTrue(k) =>
            LET before == Range(generateAISuggestions(profile, documents))
                after == Range(generateAISuggestions(profile', documents'))
            IN  /\ after \ before = {RuleString(k, profile')}
                /\ \A j \in Fired(profile, Len(documents)) \ {k} :
                      RuleString(j, profile) \in after]_vars

\* C5 amended: such a change adds exactly the string of rule k and removes the
\* string of no rule that reads another field or the document count. What may
\* disappear is the string of the other rule on the syllabus (rules 2 and 4
\* exclude each other) and the generic message.
C5_MonotonicAcrossFields ==
    [][SingleFieldChange =>
        \A k \in 1..6 : BecomesTrue(k) =>
            LET before == Range(generateAISuggestions(profile, documents))
                after == Range(generateAISuggestions(profile', documents'))
            IN  /\ after \ before = {RuleString(k, profile')}
                /\ \A j \in Fired(profile, Len(documents)) \ {k} :
                      RuleInput(j) # RuleInput(k) => RuleString(j, profile) \in after
                /\ before \ after \subseteq
                      {NoProfileData} \cup
                      {RuleString(j, profile) : j \in {i \in {2, 4} \ {k} : k \in {2, 4}}}]_vars

\* C5 witness: the last handler edited a profile field, and the rules on
\* qualification, syllabus and nationality all hold, with their strings shown.
C5_Witness ==
    /\ lastEvent = "updateProfileField"
    /\ {1, 2, 3} \subseteq Fired(profile, Len(documents))
    /\ generateAISuggestions(profile, documents) =
          <<DepthAdvice, ProblemSetAdvice, BoardAdvice>>

\* the k-th smallest element of a set of numbers
KthSmallest(S, k) == CHOOSE x \in S : Cardinality({y \in S : y <= x}) = k

\* C6: the suggestions are the strings of exactly the rules that hold for the
\* profile and the document count, one each, in rule order; the list is never
\* empty, and it is the one generic message exactly when no rule holds; the
\* empty profile with 5 documents gives the upload-syllabus and the
\* spaced-repetition strings.
C6_Suggestions ==
    LET out == generateAISuggestions(profile, documents)
        fired == Fired(profile, Len(documents))
    IN  /\ Len(out) >= 1
        /\ (fired = {}) <=> (out = <<NoProfileData>>)
        /\ fired # {} =>
              /\ Len(out) = Cardinality(fired)
              /\ \A i \in DOMAIN out : out[i] = RuleString(KthSmallest(fired, i), profile)
        /\ (profile = EmptyProfile /\ Len(documents) = 5) =>
              out = <<UploadSyllabusAdvice, SpacedRepetitionAdvice>>

\* C6 witness: the empty profile with 5 documents.
C6_Witness ==
    /\ profile = EmptyProfile
    /\ Len(documents) = 5
    /\ lastEvent = "handleFileUpload"

-----------------------------------------------------------------------------
(* Properties of the component, under Spec and SpecProgress *)

\* C8: once the effects of the last state change have run, each storage key
\* holds the JSON text of the state it belongs to; so after Reset sc_profile
\* holds the empty profile and is not absent.
C8_StorageHoldsState ==
    pending = {} =>
        /\ storage["sc_profile"] = Stored(stringifyProfile(profile))
        /\ storage["sc_documents"] = Stored(stringifyDocuments(documents))
        /\ storage["sc_assessments"] = Stored(stringifyAssessments(assessments))
        /\ \A k \in StorageKeys : storage[k].present
        /\ JSONparse(storage["sc_profile"].value) = profile
        /\ JSONparse(storage["sc_documents"].value) = documents
        /\ JSONparse(storage["sc_assessments"].value) = assessments

\* C8 witness: Reset was the last handler, on a session with documents and
\* assessments; its effects have run and sc_profile holds the empty profile.
C8_Witness ==
    /\ lastEvent = "reset"
    /\ pending = {}
    /\ documents # <<>>
    /\ assessments # <<>>
    /\ storage["sc_profile"] = Stored(stringifyProfile(EmptyProfile))

IsSuffix(old, new) ==
    /\ Len(old) <= Len(new)
    /\ SubSeq(new, Len(new) - Len(old) + 1, Len(new)) = old

\* C9: every step keeps every stored assessment, unchanged and in the same
\* order behind the ones added; a step that changes the progress series
\* changes neither assessments, documents, profile nor route.
C9_AssessmentsKept ==
    [][/\ IsSuffix(assessments, assessments')
       /\ progressData' # progressData =>
             UNCHANGED <<assessments, documents, profile, route>>]_vars

\* C9 witness: two assessments are stored and the progress simulation has just
\* changed the series.
C9_Witness ==
    /\ Len(assessments) = 2
    /\ lastEvent = "markAssessmentProgress"
    /\ progressData # sampleProgress

SeedMonths == <<<<"J", "a", "n">>, <<"F", "e", "b">>, <<"M", "a", "r">>, <<"A", "p", "r">>,
    <<"M", "a", "y">>, <<"J", "u", "n">>, <<"J", "u", "l">>, <<"A", "u", "g">>>>

SeedScores == <<45, 52, 58, 62, 68, 72, 75, 80>>

\* C10: the progress series always has the 8 seed months in seed order and
\* integer scores from the seed value to 100; a step changes the score of at
\* most one entry, by adding 0 to 19 and capping at 100, and lowers none.
C10_Progress ==
    /\ [](/\ Len(progressData) = 8
          /\ \A i \in 1..8 :
                /\ progressData[i].month = SeedMonths[i]
                /\ progressData[i].score \in SeedScores[i]..100)
    /\ [][LET changed == {i \in 1..8 : progressData'[i].score # progressData[i].score}
          IN  /\ Cardinality(changed) <= 1
              /\ \A i \in changed :
                    \E d \in 0..19 :
                       progressData'[i].score =
                          IF progressData[i].score + d > 100 THEN 100
                          ELSE progressData[i].score + d
              /\ \A i \in 1..8 : progressData'[i].score >= progressData[i].score]_vars

\* C10 witness: simulations have raised the first entry and have raised the
\* last entry to the cap of 100.
C10_Witness ==
    /\ lastEvent = "markAssessmentProgress"
    /\ progressData[8].score = 100
    /\ progressData[1].score > 45

=============================================================================
